---- MODULE Spec2Model ----
(***************************************************************************)
(* A model of src/main.py of Generation-For-NLP: the record normaliser,    *)
(* the prompt builders, the length filter and train/eval split, the        *)
(* evaluation metric, the inference loop of main with its try / except /   *)
(* finally, and the __main__ entry point.                                  *)
(*                                                                         *)
(* Python strings are sequences of one-character strings.  An optional     *)
(* value is a tagged record: None, or Some(v).                             *)
(***************************************************************************)
EXTENDS Integers, Sequences, FiniteSets, TLC

VARIABLES
    \* prompt pipeline (record_to_df and the two process_df builders)
    raw,            \* the row read from the csv (problems already literal_eval'ed)
    df_row,         \* the row of the DataFrame record_to_df returns
    processed,      \* the entry the process_df function appended
    ppc,            \* position: "raw", "df", "train", "test"
    \* length filter and train/eval split of main
    tokenized_dataset,  \* the tokenized examples, in dataset order
    mex_seq_len,        \* data_args.max_seq_length
    filtered,           \* the dataset after .filter(...)
    train_dataset,      \* tokenized_dataset['train']
    eval_dataset,       \* tokenized_dataset['test']
    dpc,                \* position: "tokenized", "filtered", "split", "ValueError"
    \* one pass of the body of the inference loop
    item,           \* data: the InferenceItem
    logits,         \* outputs.logits[:, -1].flatten(): vocabulary id -> logit
    result,         \* the row appended to infer_results
    \* evaluation during training
    eval_example,   \* the eval example: its number of choices and its label
    model_logits,   \* the model's logits: position -> vocabulary id -> logit
    metric_logits,  \* what preprocess_logits_for_metrics returns
    metric,         \* what compute_metrics computes
    epc,            \* position: "model", "preprocessed", "computed"
    \* a run of main
    do_train,       \* train_args.do_train
    do_predict,     \* train_args.do_predict
    do_RAG,         \* custom_args.do_RAG
    test_df,        \* the rows of the test csv, after record_to_df
    test_dataset,   \* what test_df_to_process_df returns
    pos,            \* how many items the for loop has taken
    infer_results,
    predictions_csv,    \* the file to_csv writes, None while there is none
    logged,         \* logging.error has run
    cache_emptied,  \* torch.cuda.empty_cache has run
    error,          \* the exception in flight: where it was raised
    stage,          \* the step of main before its try block
    mpc,            \* position in main
    \* the entry point
    argv,           \* sys.argv
    argv_run_name,
    main_run_name,  \* the run_name main was called with
    xpc             \* position: "start", "input", "call", "main", "IndexError"

promptVars == <<raw, df_row, processed, ppc>>

dataVars == <<tokenized_dataset, mex_seq_len, filtered, train_dataset, eval_dataset, dpc>>

scoreVars == <<item, logits, result>>

evalVars == <<eval_example, model_logits, metric_logits, metric, epc>>

mainVars ==
    <<do_train, do_predict, do_RAG, test_df, test_dataset, pos, infer_results,
      predictions_csv, logged, cache_emptied, error, stage, mpc>>

entryVars == <<argv, argv_run_name, main_run_name, xpc>>

vars == <<promptVars, dataVars, scoreVars, evalVars, mainVars, entryVars>>

notPromptVars == <<dataVars, scoreVars, evalVars, mainVars, entryVars>>

notDataVars == <<promptVars, scoreVars, evalVars, mainVars, entryVars>>

notScoreVars == <<promptVars, dataVars, evalVars, mainVars, entryVars>>

notEvalVars == <<promptVars, dataVars, scoreVars, mainVars, entryVars>>

notMainVars == <<promptVars, dataVars, scoreVars, evalVars, entryVars>>

notEntryVars == <<promptVars, dataVars, scoreVars, evalVars, mainVars>>

\* ---------------------------------------------------------------- bounds

MaxChoices == 4

MaxTokenized == 3

MaxTokens == 3

MaxFiltered == 11

LogitMax == 3

MaxPositions == 3

MaxItems == 2

MaxArgs == 3

\* ------------------------------------------------------- python values

None == [tag |-> "None"]

Some(v) == [tag |-> "Some", v |-> v]

\* bool(x) of an optional string: None and '' are falsy.
Truthy(x) == x.tag = "Some" /\ Len(x.v) > 0

Digit == <<"0", "1", "2", "3", "4", "5", "6", "7", "8", "9">>

\* str(n) / f"{n}" of a natural number: its decimal digits.
RECURSIVE Str(_)
Str(n) == IF n < 10 THEN <<Digit[n + 1]>> ELSE Str(n \div 10) \o <<Digit[(n % 10) + 1]>>

\* f"{x}" of an optional integer.
FStr(x) == IF x.tag = "None" THEN <<"N", "o", "n", "e">> ELSE Str(x.v)

RECURSIVE Join(_, _)
\* sep.join(parts)
Join(sep, parts) ==
    IF Len(parts) = 0 THEN <<>>
    ELSE IF Len(parts) = 1 THEN parts[1]
    ELSE parts[1] \o sep \o Join(sep, Tail(parts))

\* ------------------------------------------------------ record_to_df

\* dict.get(key, None)
Get(d, key) == IF key \in DOMAIN d THEN Some(d[key]) ELSE None

record_to_df(r) ==
    [id            |-> r.id,
     paragraph     |-> r.paragraph,
     question      |-> r.problems.question,
     choices       |-> r.problems.choices,
     answer        |-> Get(r.problems, "answer"),
     question_plus |-> IF "question_plus" \in DOMAIN r.problems
                       THEN r.problems.question_plus
                       ELSE None]

\* ------------------------------------------------------ prompt builder

\* custom_args.prompt_question_plus / prompt_no_question_plus: a template is a
\* sequence of literal pieces and {placeholders}.
Lit(s) == [kind |-> "lit", text |-> s]

Field(name) == [kind |-> "field", name |-> name]

q_plus ==
    <<Field("paragraph"), Lit(<<"Q", ":">>), Field("question"), Lit(<<"+", ":">>),
      Field("question_plus"), Lit(<<"\n">>), Field("choices")>>

no_q_plus ==
    <<Field("paragraph"), Lit(<<"Q", ":">>), Field("question"), Lit(<<"\n">>),
      Field("choices")>>

RECURSIVE Format(_, _)
\* template.format(**kwargs); a placeholder that kwargs lacks is a KeyError.
Format(template, kwargs) ==
    IF Len(template) = 0 THEN <<>>
    ELSE LET p == Head(template)
             piece == IF p.kind = "lit" THEN p.text ELSE kwargs[p.name]
         IN  piece \o Format(Tail(template), kwargs)

\* "\n".join([f"{idx + 1} - {choice}" for idx, choice in enumerate(choices)])
ChoiceLineZeroBased(idx, choice) == Str(idx) \o <<" ", "-", " ">> \o choice

ChoiceLine(idx, choice) == Str(idx + 1) \o <<" ", "-", " ">> \o choice

ChoicesString(choices) ==
    Join(<<"\n">>, [idx0 \in 1..Len(choices) |-> ChoiceLine(idx0 - 1, choices[idx0])])

\* the branch on the truthiness of question_plus, common to both builders
UsesPlusIfNotNone(question_plus) == question_plus.tag = "Some"

UsesPlus(question_plus) == Truthy(question_plus)

UserMessage(rec) ==
    IF UsesPlus(rec.question_plus)
    THEN Format(q_plus, [paragraph     |-> rec.paragraph,
                         question      |-> rec.question,
                         question_plus |-> rec.question_plus.v,
                         choices       |-> ChoicesString(rec.choices)])
    ELSE Format(no_q_plus, [paragraph |-> rec.paragraph,
                            question  |-> rec.question,
                            choices   |-> ChoicesString(rec.choices)])

SystemContent == <<"s", "y", "s">>

train_df_to_process_df(rec) ==
    [id       |-> rec.id,
     messages |-> <<[role |-> "system", content |-> SystemContent],
                    [role |-> "user", content |-> UserMessage(rec)],
                    [role |-> "assistant", content |-> FStr(rec.answer)]>>,
     label    |-> rec.answer]

test_df_to_process_df(rec) ==
    [id          |-> rec.id,
     messages    |-> <<[role |-> "system", content |-> SystemContent],
                       [role |-> "user", content |-> UserMessage(rec)]>>,
     label       |-> rec.answer,
     len_choices |-> Len(rec.choices)]

\* ------------------------------------------------ prompt pipeline: steps

ChoiceTexts == {<<"A">>, <<"B">>, <<"C", "D">>}

ChoiceLists == UNION {[1..n -> ChoiceTexts] : n \in 2..MaxChoices}

PlusValues == {None, Some(<<>>), Some(<<"X">>)}

\* The problems dicts a csv row can hold: 'answer' and 'question_plus' are
\* optional keys; question_plus may also be present with None or ''.
ProblemsDicts ==
    {[question |-> <<"q">>, choices |-> c] : c \in ChoiceLists}
    \cup {[question |-> <<"q">>, choices |-> c, answer |-> a] :
             c \in ChoiceLists, a \in 1..2}
    \cup {[question |-> <<"q">>, choices |-> c, question_plus |-> p] :
             c \in ChoiceLists, p \in PlusValues}
    \cup {[question |-> <<"q">>, choices |-> c, answer |-> a, question_plus |-> p] :
             c \in ChoiceLists, a \in 1..2, p \in PlusValues}

PromptIdle == raw = None /\ df_row = None /\ processed = None /\ ppc = "off"

DataIdle ==
    /\ tokenized_dataset = <<>>
    /\ mex_seq_len = 0
    /\ filtered = None
    /\ train_dataset = None
    /\ eval_dataset = None
    /\ dpc = "off"

ScoreIdle == item = None /\ logits = None /\ result = None

EvalIdle ==
    /\ eval_example = None
    /\ model_logits = None
    /\ metric_logits = None
    /\ metric = None
    /\ epc = "off"

MainIdle ==
    /\ do_train = FALSE
    /\ do_predict = FALSE
    /\ do_RAG = FALSE
    /\ test_df = <<>>
    /\ test_dataset = None
    /\ pos = 0
    /\ infer_results = None
    /\ predictions_csv = None
    /\ logged = FALSE
    /\ cache_emptied = FALSE
    /\ error = None
    /\ stage = 0
    /\ mpc = "off"

EntryIdle == argv = <<>> /\ argv_run_name = None /\ main_run_name = None /\ xpc = "off"

PromptInit ==
    /\ DataIdle
    /\ ScoreIdle
    /\ EvalIdle
    /\ MainIdle
    /\ EntryIdle
    /\ raw \in {[id |-> <<"i">>, paragraph |-> <<"P">>, problems |-> p] : p \in ProblemsDicts}
    /\ df_row = None
    /\ processed = None
    /\ ppc = "raw"

RecordToDf ==
    /\ ppc = "raw"
    /\ df_row' = record_to_df(raw)
    /\ ppc' = "df"
    /\ UNCHANGED <<raw, processed, notPromptVars>>

TrainDfToProcessDf ==
    /\ ppc = "df"
    /\ processed' = train_df_to_process_df(df_row)
    /\ ppc' = "train"
    /\ UNCHANGED <<raw, df_row, notPromptVars>>

TestDfToProcessDf ==
    /\ ppc = "df"
    /\ processed' = test_df_to_process_df(df_row)
    /\ ppc' = "test"
    /\ UNCHANGED <<raw, df_row, notPromptVars>>

PromptNext == RecordToDf \/ TrainDfToProcessDf \/ TestDfToProcessDf

SpecPrompt == PromptInit /\ [][PromptNext]_vars

\* ------------------------------------------------ prompt pipeline: claims

Built == ppc \in {"train", "test"}

UserContent == processed.messages[2].content

\* the question_plus of the csv row is present and non-empty
PlusPresentNonEmpty ==
    /\ "question_plus" \in DOMAIN raw.problems
    /\ raw.problems.question_plus # None
    /\ raw.problems.question_plus.v # <<>>

Contains(s, ch) == \E i \in 1..Len(s) : s[i] = ch

\* s.split("\n")
RECURSIVE SplitLines(_)
SplitLines(s) ==
    IF \A i \in 1..Len(s) : s[i] # "\n" THEN <<s>>
    ELSE LET i == CHOOSE k \in 1..Len(s) :
                      s[k] = "\n" /\ \A j \in 1..(k - 1) : s[j] # "\n"
         IN  <<SubSeq(s, 1, i - 1)>> \o SplitLines(SubSeq(s, i + 1, Len(s)))

\* The choices block of a rendered user message: both templates put it after
\* their only newline, and no field of the modelled rows holds a newline.
ChoicesBlock(msg) == Join(<<"\n">>, Tail(SplitLines(msg)))

\* C2: both builders render the user message with q_plus if and only if the
\* row's question_plus is present and non-empty, and with no_q_plus otherwise
\* (key absent, None or '').
C2_TemplateIffPlus ==
    Built =>
        IF PlusPresentNonEmpty
        THEN UserContent = Format(q_plus,
                 [paragraph     |-> raw.paragraph,
                  question      |-> raw.problems.question,
                  question_plus |-> raw.problems.question_plus.v,
                  choices       |-> ChoicesBlock(UserContent)])
        ELSE UserContent = Format(no_q_plus,
                 [paragraph |-> raw.paragraph,
                  question  |-> raw.problems.question,
                  choices   |-> ChoicesBlock(UserContent)])

\* a row whose question_plus is present but '' was rendered without it, and a
\* row with a non-empty one is what the claim's other branch is about
C2_Witness ==
    /\ ppc = "test"
    /\ "question_plus" \in DOMAIN raw.problems
    /\ raw.problems.question_plus = Some(<<>>)
    /\ ~Contains(UserContent, "+")

\* C3: the rendered choices block is exactly the lines "k - c_k", k = 1..n,
\* in the order of the row's choices, one line per choice.
C3_ChoicesBlock ==
    Built =>
        LET lines == Tail(SplitLines(UserContent))
            choices == raw.problems.choices
        IN  /\ Len(lines) = Len(choices)
            /\ \A k \in 1..Len(choices) :
                   lines[k] = <<Digit[k + 1], " ", "-", " ">> \o choices[k]

\* the spec's example: four choices render as four numbered lines
C3_Witness ==
    /\ ppc = "train"
    /\ raw.problems.choices = <<<<"A">>, <<"B">>, <<"C", "D">>, <<"A">>>>
    /\ ChoicesBlock(UserContent) =
          <<"1", " ", "-", " ", "A", "\n", "2", " ", "-", " ", "B", "\n",
            "3", " ", "-", " ", "C", "D", "\n", "4", " ", "-", " ", "A">>

\* ------------------------------------------ length filter (main, line 244)

\* A tokenized example: input_ids and attention_mask of one length.  The
\* first token id is the example's position in the unfiltered dataset, so
\* that examples of equal length stay distinguishable.
Example(k, n) ==
    [input_ids      |-> [j \in 1..n |-> IF j = 1 THEN k ELSE 0],
     attention_mask |-> [j \in 1..n |-> 1]]

\* lambda x: len(x["input_ids"]) <= mex_seq_len
KeepStrict(x, max_len) == Len(x.input_ids) < max_len

Keep(x, max_len) == Len(x.input_ids) <= max_len

\* Dataset.filter keeps the rows the predicate accepts, in dataset order.
Filter(dataset, max_len) == SelectSeq(dataset, LAMBDA x : Keep(x, max_len))

FilterInit ==
    /\ PromptIdle
    /\ ScoreIdle
    /\ EvalIdle
    /\ MainIdle
    /\ EntryIdle
    /\ \E n \in 0..MaxTokenized :
         \E lens \in [1..n -> 1..MaxTokens] :
            tokenized_dataset = [k \in 1..n |-> Example(k, lens[k])]
    /\ mex_seq_len \in 1..MaxTokens
    /\ filtered = None
    /\ train_dataset = None
    /\ eval_dataset = None
    /\ dpc = "tokenized"

FilterDataset ==
    /\ dpc = "tokenized"
    /\ filtered' = Some(Filter(tokenized_dataset, mex_seq_len))
    /\ dpc' = "filtered"
    /\ UNCHANGED <<tokenized_dataset, mex_seq_len, train_dataset, eval_dataset, notDataVars>>

SpecFilter == FilterInit /\ [][FilterDataset]_vars

\* ---------------------------------- train/eval split (main, lines 245-248)

\* test_size=0.1 is 1 / TestSizeDen
TestSizeDen == 10

\* math.floor / math.ceil of n / d
Floor(n, d) == n \div d

Ceil(n, d) == (n + d - 1) \div d

\* Dataset.train_test_split with a float test_size and no train_size:
\* n_test = ceil(test_size * n_samples), n_train = n_samples - n_test.
NTestFloor(n_samples) == Floor(n_samples, TestSizeDen)

NTest(n_samples) == Ceil(n_samples, TestSizeDen)

NTrain(n_samples) == n_samples - NTest(n_samples)

\* The permutation the generator seeded with 42 draws for n rows is a fixed
\* one the model does not know; the rotations of 1..n and of n..1 stand for it.
Permutation(n, r, reversed) ==
    [j \in 1..n |-> IF reversed THEN ((n - j + r) % n) + 1 ELSE ((j - 1 + r) % n) + 1]

Select(dataset, indices) == [j \in 1..Len(indices) |-> dataset[indices[j]]]

SplitInit ==
    /\ PromptIdle
    /\ ScoreIdle
    /\ EvalIdle
    /\ MainIdle
    /\ EntryIdle
    /\ tokenized_dataset = <<>>
    /\ mex_seq_len = 0
    /\ \E n \in 0..MaxFiltered : filtered = Some([k \in 1..n |-> Example(k, 1)])
    /\ train_dataset = None
    /\ eval_dataset = None
    /\ dpc = "filtered"

\* shuffle=True: test takes the first n_test indices of the permutation, train
\* the n_train after them.
TrainTestSplit ==
    /\ dpc = "filtered"
    /\ NTrain(Len(filtered.v)) > 0
    /\ LET n == Len(filtered.v)
       IN  \E r \in 0..(n - 1), reversed \in BOOLEAN :
             LET perm == Permutation(n, r, reversed)
             IN  /\ eval_dataset' = Some(Select(filtered.v, SubSeq(perm, 1, NTest(n))))
                 /\ train_dataset' =
                      Some(Select(filtered.v, SubSeq(perm, NTest(n) + 1, NTest(n) + NTrain(n))))
    /\ dpc' = "split"
    /\ UNCHANGED <<tokenized_dataset, mex_seq_len, filtered, notDataVars>>

\* "the resulting train set will be empty": train_test_split raises ValueError
TrainTestSplitRaises ==
    /\ dpc = "filtered"
    /\ NTrain(Len(filtered.v)) = 0
    /\ dpc' = "ValueError"
    /\ UNCHANGED <<tokenized_dataset, mex_seq_len, filtered, train_dataset, eval_dataset,
                   notDataVars>>

SplitNext == TrainTestSplit \/ TrainTestSplitRaises

SpecSplit == SplitInit /\ [][SplitNext]_vars

\* ------------------------------------------------ filter and split: claims

Range(seq) == {seq[j] : j \in 1..Len(seq)}

\* the positions (first token ids) of the examples of a dataset
Positions(dataset) == [j \in 1..Len(dataset) |-> dataset[j].input_ids[1]]

\* C4: the filter removes every example longer than max_length, keeps every
\* example of length <= max_length (length exactly max_length included), and
\* the kept examples stay in their relative order.
C4_FilterKeepsInOrder ==
    dpc = "filtered" =>
        LET kept == filtered.v
        IN  /\ \A k \in 1..Len(tokenized_dataset) :
                 (tokenized_dataset[k] \in Range(kept))
                     <=> (Len(tokenized_dataset[k].input_ids) <= mex_seq_len)
            /\ \A j \in 1..Len(kept) : kept[j] \in Range(tokenized_dataset)
            /\ \A a, b \in 1..Len(kept) :
                 a < b => Positions(kept)[a] < Positions(kept)[b]

\* an example of length exactly max_length survives while a longer one, placed
\* before it, is dropped
C4_Witness ==
    /\ dpc = "filtered"
    /\ Len(tokenized_dataset) = 3
    /\ Len(tokenized_dataset[1].input_ids) > mex_seq_len
    /\ Len(tokenized_dataset[2].input_ids) = mex_seq_len
    /\ Len(tokenized_dataset[3].input_ids) < mex_seq_len
    /\ Positions(filtered.v) = <<2, 3>>

\* Python's round(0.1 * n): to the nearest integer, a tie to the even one
RoundTenth(n) ==
    LET q == n \div TestSizeDen
        r2 == 2 * (n % TestSizeDen)
    IN  IF r2 < TestSizeDen THEN q
        ELSE IF r2 > TestSizeDen THEN q + 1
        ELSE IF q % 2 = 0 THEN q ELSE q + 1

IsPartition ==
    /\ Range(Positions(train_dataset.v)) \cup Range(Positions(eval_dataset.v))
         = 1..Len(filtered.v)
    /\ Len(train_dataset.v) + Len(eval_dataset.v) = Len(filtered.v)

NumDigits == 5

\* The vocabulary: the five digit tokens and one id for every other token.
VocabSize == NumDigits + 1

\* tokenizer.vocab: the ids of the digit tokens, not in digit order; id 5 is
\* the other token.
VocabId(token) ==
    CASE token = <<"1">> -> 4
      [] token = <<"2">> -> 2
      [] token = <<"3">> -> 6
      [] token = <<"4">> -> 1
      [] token = <<"5">> -> 3

\* [logits[tokenizer.vocab[str(i + 1)]] for i in range(len_choices)]
TargetLogitListAll(lg, len_choices) == [i1 \in 1..NumDigits |-> lg[VocabId(Str(i1))]]

TargetLogitList(lg, len_choices) == [i1 \in 1..len_choices |-> lg[VocabId(Str(i1))]]

RECURSIVE SeqMax(_)
SeqMax(xs) ==
    IF Len(xs) = 1 THEN xs[1]
    ELSE LET m == SeqMax(Tail(xs)) IN IF xs[1] >= m THEN xs[1] ELSE m

RECURSIVE SeqSum(_)
SeqSum(xs) == IF Len(xs) = 0 THEN 0 ELSE xs[1] + SeqSum(Tail(xs))

\* float32 arithmetic.  A float32 in [0.5, 1] is a multiple of 2^-24: One is
\* 1.0 counted in that unit.  Logits are counted in units of 2^-25, the
\* spacing of the float32 values in [0.25, 0.5).
One == 16777216

\* exp(-d * 2^-25) in float32 for a small d >= 0: the exact value is
\* 1 - d * 2^-25 + (d * 2^-25)^2 / 2 - ..., just above 1 - d * 2^-25, and
\* rounds to the nearest multiple of 2^-24: to 1.0 for d = 0 and d = 1, to
\* 1 - 2^-24 for d = 2 and d = 3, and so on.
Exp32(d) == One - (d \div 2)

\* torch.nn.functional.softmax(torch.tensor(xs, dtype=torch.float32), dim=-1):
\* exp(x - max) over the sum of these.  The probabilities are kept as the
\* fractions num[i] / den; dividing by the one sum keeps their order.
Softmax(xs) ==
    LET m == SeqMax(xs)
        e == [i1 \in 1..Len(xs) |-> Exp32(m - xs[i1])]
    IN  [num |-> e, den |-> SeqSum(e)]

\* np.argmax(probs, axis=-1): the first index (from 0) of the largest value
Argmax(probs) ==
    (CHOOSE i1 \in 1..Len(probs.num) :
        /\ \A j \in 1..Len(probs.num) : probs.num[j] <= probs.num[i1]
        /\ \A j \in 1..(i1 - 1) : probs.num[j] < probs.num[i1]) - 1

\* the map written from "0": {0: "0", 1: "1", 2: "2", 3: "3", 4: "4"}
pred_choices_map_from_zero == [k \in 0..(NumDigits - 1) |-> Str(k)]

\* pred_choices_map = {0: "1", 1: "2", 2: "3", 3: "4", 4: "5"}
pred_choices_map == [k \in 0..(NumDigits - 1) |-> <<<<"1">>, <<"2">>, <<"3">>, <<"4">>, <<"5">>>>[k + 1]]

PredictValue(lg, len_choices) ==
    pred_choices_map[Argmax(Softmax(TargetLogitList(lg, len_choices)))]

InferResult(data, lg) == [id |-> data.id, answer |-> PredictValue(lg, data.len_choices)]

LogitVectors == [1..VocabSize -> 0..LogitMax]

ScoreInit ==
    /\ PromptIdle
    /\ DataIdle
    /\ EvalIdle
    /\ MainIdle
    /\ EntryIdle
    /\ \E n \in 2..NumDigits : item = Some([id |-> <<"t">>, len_choices |-> n])
    /\ logits = None
    /\ result = None

\* one pass of the loop body, without RAG: forward pass, scoring, append
ScoreItem ==
    /\ result = None
    /\ \E lg \in LogitVectors :
         /\ logits' = Some(lg)
         /\ result' = Some(InferResult(item.v, lg))
    /\ UNCHANGED <<item, notScoreVars>>

SpecScore == ScoreInit /\ [][ScoreItem]_vars

\* ------------------------------------------------------ scorer: claims

DigitStrings(n) == {Str(k) : k \in 1..n}

\* the logit the forward pass gave the token of digit k
LogitOfDigit(k) == logits.v[VocabId(Str(k))]

\* C1: the answer appended for an item with N choices is one of "1".."N".
C1_AnswerWithinChoices ==
    result # None => result.v.answer \in DigitStrings(item.v.len_choices)

\* an item with four choices whose highest logit is the one of "5" is
\* answered within "1".."4"
C1_Witness ==
    /\ result # None
    /\ item.v.len_choices = 4
    /\ \A k \in 1..4 : LogitOfDigit(5) > LogitOfDigit(k)
    /\ result.v.answer = <<"3">>

\* C8 as stated: the digit of 1..N with the strictly highest logit is the
\* answer, whatever the other logits are.
C8_HighestLogitWins ==
    result # None =>
        \A k \in 1..item.v.len_choices :
            (\A j \in (1..item.v.len_choices) \ {k} : LogitOfDigit(k) > LogitOfDigit(j))
                => result.v.answer = Str(k)

\* the float32 softmax probabilities of the digits 1..N
ProbsOfDigits ==
    Softmax([k \in 1..item.v.len_choices |-> LogitOfDigit(k)])

\* C8 amended: the digit of 1..N whose float32 softmax probability is the
\* strictly highest is the answer, whatever the logits of the other ids are;
\* a logit that is the highest by less than float32 resolves ties in
\* probability, and the lowest tied digit is the answer.
C8_HighestProbWins ==
    result # None =>
        LET p == ProbsOfDigits.num
        IN  \A k \in 1..item.v.len_choices :
                (\A j \in (1..item.v.len_choices) \ {k} : p[k] > p[j])
                    => result.v.answer = Str(k)

\* "3" has the highest probability among "1".."4" while "5" and another
\* token have higher logits still
C8_Witness ==
    /\ result # None
    /\ item.v.len_choices = 4
    /\ \A j \in {1, 2, 4} : ProbsOfDigits.num[3] > ProbsOfDigits.num[j]
    /\ LogitOfDigit(5) > LogitOfDigit(3)
    /\ logits.v[5] > LogitOfDigit(3)
    /\ result.v.answer = <<"3">>

\* ------------------------- evaluation during training (main, lines 256-283)

\* logits[:, -2, logit_idx] for the one example of the batch: the logits of
\* the five digit tokens at the second-to-last position
preprocess_logits_for_metrics(lgs) ==
    [i1 \in 1..NumDigits |-> lgs[Len(lgs) - 1][VocabId(Str(i1))]]

\* softmax, argmax, accuracy against int(label) - 1
compute_metrics(pre, label) ==
    LET prediction == Argmax(Softmax(pre))
    IN  [prediction |-> prediction,
         reference  |-> label - 1,
         accuracy   |-> IF prediction = label - 1 THEN 1 ELSE 0]

\* one-hot logit vectors, and the all-zero one
OneHot(t) == [v \in 1..VocabSize |-> IF v = t THEN LogitMax ELSE 0]

HotVectors == {OneHot(t) : t \in 0..VocabSize}

EvalInit ==
    /\ PromptIdle
    /\ DataIdle
    /\ ScoreIdle
    /\ MainIdle
    /\ EntryIdle
    /\ \E n \in 2..NumDigits, label \in 1..NumDigits :
         /\ label <= n
         /\ eval_example = Some([len_choices |-> n, label |-> label])
    /\ \E len \in 2..MaxPositions : \E lgs \in [1..len -> HotVectors] :
         model_logits = Some(lgs)
    /\ metric_logits = None
    /\ metric = None
    /\ epc = "model"

PreprocessLogits ==
    /\ epc = "model"
    /\ metric_logits' = Some(preprocess_logits_for_metrics(model_logits.v))
    /\ epc' = "preprocessed"
    /\ UNCHANGED <<eval_example, model_logits, metric, notEvalVars>>

ComputeMetrics ==
    /\ epc = "preprocessed"
    /\ metric' = Some(compute_metrics(metric_logits.v, eval_example.v.label))
    /\ epc' = "computed"
    /\ UNCHANGED <<eval_example, model_logits, metric_logits, notEvalVars>>

EvalNext == PreprocessLogits \/ ComputeMetrics

SpecEval == EvalInit /\ [][EvalNext]_vars

\* C10: on the evaluation path the prediction for an example with N choices
\* is an argmax over the logits of "1".."N" only, so it is below N.
C10_EvalPredictionWithinChoices ==
    epc = "computed" => metric.v.prediction < eval_example.v.len_choices

\* ------------------------------------------- a run of main (lines 138-381)

\* what main does before its try block, in order (lines 139-288)
SetupStages ==
    <<"parse_args", "load_data", "record_to_df", "load_model", "load_tokenizer",
      "train_df_to_process_df", "tokenize", "filter_and_split", "load_metric">>

Raised(at, in_try) == Some([at |-> at, in_try |-> in_try])

\* a row of the test csv after record_to_df: n choices, no answer
TestRow(k, n) ==
    [id            |-> <<"t">> \o Str(k),
     paragraph     |-> <<"P">>,
     question      |-> <<"q">>,
     choices       |-> [j \in 1..n |-> <<"A">>],
     answer        |-> None,
     question_plus |-> None]

MainInit ==
    /\ PromptIdle
    /\ DataIdle
    /\ ScoreIdle
    /\ EvalIdle
    /\ EntryIdle
    /\ do_train \in BOOLEAN
    /\ do_predict \in BOOLEAN
    /\ do_RAG \in BOOLEAN
    /\ \E n \in 0..MaxItems : \E lens \in [1..n -> 2..NumDigits] :
         test_df = [k \in 1..n |-> TestRow(k, lens[k])]
    /\ test_dataset = None
    /\ pos = 0
    /\ infer_results = None
    /\ predictions_csv = None
    /\ logged = FALSE
    /\ cache_emptied = FALSE
    /\ error = None
    /\ stage = 1
    /\ mpc = "setup"

\* where the try block goes once training is over or skipped (line 324)
AfterTrain == IF do_predict THEN "predict" ELSE "finally"

\* line 291
TryEntry == IF do_train THEN "train" ELSE AfterTrain

SetupStep ==
    /\ mpc = "setup"
    /\ stage' = stage + 1
    /\ mpc' = IF stage = Len(SetupStages) THEN TryEntry ELSE "setup"
    /\ UNCHANGED <<do_train, do_predict, do_RAG, test_df, test_dataset, pos, infer_results,
                   predictions_csv, logged, cache_emptied, error, notMainVars>>

\* an exception before the try block leaves main at once
SetupRaise ==
    /\ mpc = "setup"
    /\ error' = Raised(SetupStages[stage], FALSE)
    /\ mpc' = "raised"
    /\ UNCHANGED <<do_train, do_predict, do_RAG, test_df, test_dataset, pos, infer_results,
                   predictions_csv, logged, cache_emptied, stage, notMainVars>>

\* lines 292-322
Train ==
    /\ mpc = "train"
    /\ mpc' = AfterTrain
    /\ UNCHANGED <<do_train, do_predict, do_RAG, test_df, test_dataset, pos, infer_results,
                   predictions_csv, logged, cache_emptied, error, stage, notMainVars>>

TrainRaise ==
    /\ mpc = "train"
    /\ error' = Raised("train", TRUE)
    /\ mpc' = "except"
    /\ UNCHANGED <<do_train, do_predict, do_RAG, test_df, test_dataset, pos, infer_results,
                   predictions_csv, logged, cache_emptied, stage, notMainVars>>

\* lines 325-333
ReadTest ==
    /\ mpc = "predict"
    /\ test_dataset' = Some([k \in 1..Len(test_df) |-> test_df_to_process_df(test_df[k])])
    /\ infer_results' = Some(<<>>)
    /\ pos' = 0
    /\ mpc' = "loop"
    /\ UNCHANGED <<do_train, do_predict, do_RAG, test_df, predictions_csv, logged,
                   cache_emptied, error, stage, notMainVars>>

ReadTestRaise ==
    /\ mpc = "predict"
    /\ error' = Raised("read_test", TRUE)
    /\ mpc' = "except"
    /\ UNCHANGED <<do_train, do_predict, do_RAG, test_df, test_dataset, pos, infer_results,
                   predictions_csv, logged, cache_emptied, stage, notMainVars>>

\* the failing item is passed over and the loop goes on
InferItemSkipped ==
    /\ mpc = "loop"
    /\ pos < Len(test_dataset.v)
    /\ pos' = pos + 1
    /\ UNCHANGED <<do_train, do_predict, do_RAG, test_df, test_dataset, infer_results,
                   predictions_csv, logged, cache_emptied, error, stage, mpc, notMainVars>>

\* one pass of the loop body (lines 336-368) that goes through; with do_RAG
\* the body never does, see InferItemRaise
InferItem ==
    /\ mpc = "loop"
    /\ pos < Len(test_dataset.v)
    /\ ~do_RAG
    /\ \E lg \in HotVectors :    \* SpecScore ranges over every logits vector
         infer_results' = Some(Append(infer_results.v, InferResult(test_dataset.v[pos + 1], lg)))
    /\ pos' = pos + 1
    /\ UNCHANGED <<do_train, do_predict, do_RAG, test_df, test_dataset, predictions_csv,
                   logged, cache_emptied, error, stage, mpc, notMainVars>>

\* one pass of the loop body that raises: the forward pass or a vocabulary
\* lookup fails, or do_RAG is set and line 344 reads args, a name main never
\* binds (NameError)
InferItemRaise ==
    /\ mpc = "loop"
    /\ pos < Len(test_dataset.v)
    /\ error' = Raised("inference", TRUE)
    /\ mpc' = "except"
    /\ UNCHANGED <<do_train, do_predict, do_RAG, test_df, test_dataset, pos, infer_results,
                   predictions_csv, logged, cache_emptied, stage, notMainVars>>

\* lines 370-372, once the loop has taken every item
WritePredictions ==
    /\ mpc = "loop"
    /\ pos = Len(test_dataset.v)
    /\ predictions_csv' = Some(infer_results.v)
    /\ mpc' = "finally"
    /\ UNCHANGED <<do_train, do_predict, do_RAG, test_df, test_dataset, pos, infer_results,
                   logged, cache_emptied, error, stage, notMainVars>>

\* os.makedirs or to_csv fails
WriteRaise ==
    /\ mpc = "loop"
    /\ pos = Len(test_dataset.v)
    /\ error' = Raised("write", TRUE)
    /\ mpc' = "except"
    /\ UNCHANGED <<do_train, do_predict, do_RAG, test_df, test_dataset, pos, infer_results,
                   predictions_csv, logged, cache_emptied, stage, notMainVars>>

\* lines 374-376: log, then raise e
Except ==
    /\ mpc = "except"
    /\ logged' = TRUE
    /\ mpc' = "finally"
    /\ UNCHANGED <<do_train, do_predict, do_RAG, test_df, test_dataset, pos, infer_results,
                   predictions_csv, cache_emptied, error, stage, notMainVars>>

\* the cache is emptied only on the way out without an exception
FinallyOnSuccessOnly ==
    /\ mpc = "finally"
    /\ cache_emptied' = (error = None)
    /\ mpc' = IF error = None THEN "returned" ELSE "raised"
    /\ UNCHANGED <<do_train, do_predict, do_RAG, test_df, test_dataset, pos, infer_results,
                   predictions_csv, logged, error, stage, notMainVars>>

\* lines 378-381: empty the cache, then return or let the exception go on
Finally ==
    /\ mpc = "finally"
    /\ cache_emptied' = TRUE
    /\ mpc' = IF error = None THEN "returned" ELSE "raised"
    /\ UNCHANGED <<do_train, do_predict, do_RAG, test_df, test_dataset, pos, infer_results,
                   predictions_csv, logged, error, stage, notMainVars>>

MainNext ==
    \/ SetupStep
    \/ SetupRaise
    \/ Train
    \/ TrainRaise
    \/ ReadTest
    \/ ReadTestRaise
    \/ InferItem
    \/ InferItemRaise
    \/ WritePredictions
    \/ WriteRaise
    \/ Except
    \/ Finally

SpecMain == MainInit /\ [][MainNext]_vars

\* ------------------------------------------------------- main: claims

\* C5: the predictions are written only after the loop has taken every item,
\* with one {id, answer} row per item, in the order of the test items, each
\* row with its item's id; when inference fails on an item none is written.
C5_PredictionsAfterLoop ==
    /\ predictions_csv # None =>
          /\ pos = Len(test_df)
          /\ Len(predictions_csv.v) = Len(test_df)
          /\ \A k \in 1..Len(test_df) :
                /\ DOMAIN predictions_csv.v[k] = {"id", "answer"}
                /\ predictions_csv.v[k].id = test_df[k].id
                /\ predictions_csv.v[k].answer \in DigitStrings(NumDigits)
    /\ (error # None /\ error.v.at = "inference") => predictions_csv = None

\* a run over two items that wrote both rows and returned
C5_Witness ==
    /\ mpc = "returned"
    /\ Len(test_df) = 2
    /\ predictions_csv # None
    /\ Len(predictions_csv.v) = 2
    /\ predictions_csv.v[2].id = <<"t", "2">>

\* C6 as stated: whatever the point of main an error aborts the run at, it
\* was logged and the accelerator cache was emptied before the run aborts.
C6_EveryErrorCleansUp ==
    mpc = "raised" => error # None /\ logged /\ cache_emptied

\* C6 amended: no error is swallowed; an error raised inside the try block
\* (training, reading the test set, inference, writing) is logged and aborts
\* the run after the cache was emptied; an error raised before the try block
\* (argument parsing, data loading, record normalisation, model and
\* tokenizer loading, tokenisation, filter and split) aborts the run at
\* once, not logged and with the cache not emptied.
C6_TryErrorsCleanUp ==
    /\ error # None => mpc \in {"except", "finally", "raised"}
    /\ mpc = "returned" => cache_emptied
    /\ mpc = "raised" =>
          /\ error # None
          /\ error.v.in_try => logged /\ cache_emptied
          /\ ~error.v.in_try => ~logged /\ ~cache_emptied

\* an inference error that aborted the run, logged and after the cleanup
C6_Witness ==
    /\ mpc = "raised"
    /\ error = Raised("inference", TRUE)
    /\ logged
    /\ cache_emptied

\* ----------------------------------------- entry point (lines 384-394)

RunNameFlag == <<"-", "-", "r", "u", "n", "_", "n", "a", "m", "e">>

ArgTokens == {RunNameFlag, <<>>, <<"x">>, <<"-", "-", "d">>}

\* list.index(x): the first index (from 0) of x; ValueError when there is none
Index(list, x) == (CHOOSE k \in 1..Len(list) : list[k] = x /\ \A j \in 1..(k - 1) : list[j] # x) - 1

EntryInit ==
    /\ PromptIdle
    /\ DataIdle
    /\ ScoreIdle
    /\ EvalIdle
    /\ MainIdle
    /\ \E n \in 0..MaxArgs : \E args \in [1..n -> ArgTokens] :
         argv = <<<<"m", ".", "p", "y">>>> \o args
    /\ argv_run_name = None
    /\ main_run_name = None
    /\ xpc = "start"

\* lines 385-390: the try and its except ValueError.  An index past the end
\* of sys.argv is an IndexError, which nothing catches.
ParseRunName ==
    /\ xpc = "start"
    /\ IF RunNameFlag \notin Range(argv)
       THEN argv_run_name' = Some(<<>>) /\ xpc' = "input"
       ELSE LET argv_run_index == Index(argv, RunNameFlag) + 1
            IN  IF argv_run_index >= Len(argv)
                THEN argv_run_name' = argv_run_name /\ xpc' = "IndexError"
                ELSE argv_run_name' = Some(argv[argv_run_index + 1]) /\ xpc' = "call"
    /\ UNCHANGED <<argv, main_run_name, notEntryVars>>

\* lines 391-392: input() until the name is not ''
Input ==
    /\ xpc = "input"
    /\ \E line \in {<<>>, <<"r">>} :
         /\ argv_run_name' = Some(line)
         /\ xpc' = IF line = <<>> THEN "input" ELSE "call"
    /\ UNCHANGED <<argv, main_run_name, notEntryVars>>

\* line 394
CallMain ==
    /\ xpc = "call"
    /\ main_run_name' = argv_run_name
    /\ xpc' = "main"
    /\ UNCHANGED <<argv, argv_run_name, notEntryVars>>

EntryNext == ParseRunName \/ Input \/ CallMain

SpecEntry == EntryInit /\ [][EntryNext]_vars

\* the command line has no usable run name: no --run_name, or --run_name
\* with nothing after it
NoUsableRunName ==
    \/ RunNameFlag \notin Range(argv)
    \/ Index(argv, RunNameFlag) + 1 >= Len(argv)

\* C9: started without a usable run name, the entry point does not fail; it
\* asks until a non-empty name is entered, and main only ever gets a
\* non-empty run name.
C9_MissingRunNameReprompts ==
    NoUsableRunName =>
        /\ xpc # "IndexError"
        /\ xpc = "main" => main_run_name.v # <<>>

====
